---- MODULE Spec2Model ----
(***************************************************************************)
(* Model of check_links.py: an internal-link checker driven by a sitemap.  *)
(* main() loads the sitemap, scans the pages one after another; each page  *)
(* scan (check_page_links) fetches the page, normalises its anchors,       *)
(* partitions the in-scope links into cached / to-probe under cache_lock,  *)
(* probes the latter in a ThreadPoolExecutor (check_link) and writes the   *)
(* outcomes into link_cache; main() folds the findings of every page into  *)
(* all_broken_links_map and derives the exit status from it.               *)
(***************************************************************************)
EXTENDS Integers, Sequences, FiniteSets, TLC

\* ---------------------------------------------------------------- constants
MAX_WORKERS == 10

\* ------------------------------------------------------------------- bounds
\* longest sitemap (number of <loc> entries)
MaxPages == 2

\* anchors on the page of the large site: one more than the pool has threads
PoolLinks == MAX_WORKERS + 1

\* ------------------------------------------------------------ URL strings
\* A URL string is kept as its literal parts.  query and fragment are <<>>
\* when the delimiter is absent and <<text>> when it is present (text may be
\* ""): "http://site/a?" and "http://site/a" are different strings.
\* A path is [abs, segs]: "/a" is absolute with one segment, "b" relative.
AbsPath(segs) == [abs |-> TRUE, segs |-> segs]
RelPath(segs) == [abs |-> FALSE, segs |-> segs]
EmptyPath == RelPath(<<>>)
Str(s, n, p, q, f) ==
    [scheme |-> s, netloc |-> n, path |-> p, query |-> q, fragment |-> f]
EmptyStr == Str("", "", EmptyPath, <<>>, <<>>)

uses_relative == {"", "ftp", "http", "https"}
uses_netloc == {"", "ftp", "http", "https"}

\* urlsplit raises ValueError("Invalid IPv6 URL") on an unbalanced bracket
RaisesValueError(url) == url.netloc = "["

\* urllib.parse.urlparse(url, scheme): the component VALUES (delimiters gone)
urlparse(url, default_scheme) ==
    [scheme   |-> IF url.scheme = "" THEN default_scheme ELSE url.scheme,
     netloc   |-> url.netloc,
     path     |-> url.path,
     query    |-> IF url.query = <<>> THEN "" ELSE url.query[1],
     fragment |-> IF url.fragment = <<>> THEN "" ELSE url.fragment[1]]

\* urllib.parse.urlunparse / ParseResult.geturl(): an empty component is
\* written without its delimiter
urlunparse(parts) ==
    Str(parts.scheme, parts.netloc, parts.path,
        IF parts.query = "" THEN <<>> ELSE <<parts.query>>,
        IF parts.fragment = "" THEN <<>> ELSE <<parts.fragment>>)

\* ParseResult.hostname: netloc without port, lower-cased; None for no netloc
\* (the caller turns None into "")
hostname(netloc) ==
    CASE netloc = "site"      -> "site"
      [] netloc = "site:8080" -> "site"
      [] netloc = "other"     -> "other"
      [] OTHER                -> ""

\* merge of a relative path with the base path: the last base segment is
\* replaced
JoinPath(bpath, path) ==
    IF path.abs THEN path
    ELSE AbsPath((IF bpath.segs = <<>> THEN <<>>
                  ELSE SubSeq(bpath.segs, 1, Len(bpath.segs) - 1)) \o path.segs)

\* urllib.parse.urljoin(base, url)
urljoin(base, url) ==
    IF base = EmptyStr THEN url
    ELSE IF url = EmptyStr THEN base
    ELSE LET b == urlparse(base, "")
             u == urlparse(url, b.scheme)
         IN  IF u.scheme # b.scheme \/ u.scheme \notin uses_relative
             THEN url
             ELSE IF u.scheme \in uses_netloc /\ u.netloc # ""
             THEN urlunparse(u)
             ELSE LET n == [u EXCEPT !.netloc = b.netloc]
                  IN  IF n.path = EmptyPath
                      THEN urlunparse([n EXCEPT !.path = b.path,
                                                !.query = IF n.query = ""
                                                          THEN b.query
                                                          ELSE n.query])
                      ELSE urlunparse([n EXCEPT
                                         !.path = JoinPath(b.path, n.path)])

\* mutant: the fragment is not cleared
NormalizeKeepFragment(absolute_url) == urlunparse(urlparse(absolute_url, ""))

\* line 102: urlparse(absolute_url)._replace(fragment="").geturl()
Normalize(absolute_url) ==
    urlunparse([urlparse(absolute_url, "") EXCEPT !.fragment = ""])

\* mutant: an href that starts with # is left as it is
NormalizedLinkKeepAnchor(page_url, href) ==
    IF href.scheme = "" /\ href.netloc = "" /\ href.path = EmptyPath
       /\ href.query = <<>> /\ href.fragment # <<>>
    THEN href
    ELSE Normalize(urljoin(page_url, href))

\* lines 101-102 for one href of a page
NormalizedLink(page_url, href) == Normalize(urljoin(page_url, href))

\* mutant: no link is filtered out
InScopeAlways(url, base_domain) == TRUE

\* mutant: the hostname is not compared
InScopeAnyHost(url, base_domain) ==
    urlparse(url, "").scheme \in {"http", "https"}

\* line 116 negated: the link is kept
InScope(url, base_domain) ==
    LET parsed_link == urlparse(url, "")
    IN  /\ parsed_link.scheme \in {"http", "https"}
        /\ hostname(parsed_link.netloc) = base_domain

\* ------------------------------------------------------------- check_link
SkipSchemes == {"mailto", "tel", "javascript"}

\* url.startswith(('mailto:', 'tel:', 'javascript:')) or url.startswith('#')
StartsWithSkipped(url) ==
    \/ url.scheme \in SkipSchemes
    \/ /\ url.scheme = "" /\ url.netloc = "" /\ url.path = EmptyPath
       /\ url.query = <<>> /\ url.fragment # <<>>

\* what requests.get does for the probe: a response with a final status, or
\* one of the exceptions check_link catches
Response(status) == [kind |-> "response", status |-> status]
Raised(exc) == [kind |-> exc, status |-> 0]

\* mutant: status 400 itself is not broken
check_link_gt(url, net) ==
    IF StartsWithSkipped(url) THEN <<url, 0, "SKIPPED">>
    ELSE CASE net.kind = "response" ->
                <<url, net.status,
                  IF net.status > 400 THEN "BROKEN" ELSE "OK">>
           [] net.kind = "Timeout" -> <<url, -1, "ERROR (Timeout)">>
           [] net.kind = "ConnectionError" -> <<url, -2, "ERROR (Connection)">>
           [] OTHER -> <<url, -3, "ERROR (Jina chyba)">>

\* check_link(url) under the network result net: (url, status_code, message)
check_link(url, net) ==
    IF StartsWithSkipped(url) THEN <<url, 0, "SKIPPED">>
    ELSE CASE net.kind = "response" ->
                <<url, net.status,
                  IF net.status >= 400 THEN "BROKEN" ELSE "OK">>
           [] net.kind = "Timeout" -> <<url, -1, "ERROR (Timeout)">>
           [] net.kind = "ConnectionError" -> <<url, -2, "ERROR (Connection)">>
           [] OTHER -> <<url, -3, "ERROR (Jina chyba)">>

\* line 121 / 139: message not in ("OK", "SKIPPED")
IsFinding(message) == message \notin {"OK", "SKIPPED"}

\* ---------------------------------------------------------------- the web
\* env "site": a small site with every kind of href; env "large": one page
\* with PoolLinks distinct internal links, all reachable.
SitemapUrl == Str("http", "site", AbsPath(<<"sitemap.xml">>), <<>>, <<>>)
NoHostUrl == Str("", "", RelPath(<<"sitemap.xml">>), <<>>, <<>>)
P1 == Str("http", "site", AbsPath(<<"p1">>), <<>>, <<>>)
P2 == Str("http", "other", AbsPath(<<"p2">>), <<>>, <<>>)
P3 == Str("http", "site", AbsPath(<<"p3">>), <<>>, <<>>)

LinkName == <<"l01", "l02", "l03", "l04", "l05", "l06", "l07", "l08",
              "l09", "l10", "l11", "l12", "l13", "l14", "l15", "l16">>
LargeAnchors ==
    [k \in 1..PoolLinks |->
        Str("http", "site", AbsPath(<<LinkName[k]>>), <<>>, <<>>)]

\* the hrefs of the small site
HrefA == Str("http", "site", AbsPath(<<"a">>), <<>>, <<>>)         \* http://site/a
HrefAFrag == Str("http", "site", AbsPath(<<"a">>), <<>>, <<"f1">>) \* http://site/a#f1
HrefSecure == Str("https", "site", AbsPath(<<"a">>), <<"">>, <<"f2">>) \* https://site/a?#f2
HrefOther == Str("http", "other", AbsPath(<<"p2">>), <<>>, <<>>)   \* http://other/p2
HrefMail == Str("mailto", "", RelPath(<<"x@y">>), <<>>, <<>>)      \* mailto:x@y
HrefTel == Str("tel", "", RelPath(<<"+123">>), <<>>, <<>>)         \* tel:+123
HrefJs == Str("javascript", "", RelPath(<<"void(0)">>), <<>>, <<>>)
HrefTop == Str("", "", EmptyPath, <<>>, <<"top">>)                 \* #top
HrefRel == Str("", "", RelPath(<<"b">>), <<>>, <<>>)               \* b
HrefBad == Str("http", "[", EmptyPath, <<>>, <<>>)                 \* http://[

SiteHrefs == {HrefA, HrefAFrag, HrefSecure, HrefOther, HrefMail, HrefTel,
              HrefJs, HrefTop, HrefRel, HrefBad}

\* the anchor lists a page of the small site can hold
SitePages ==
    { <<>>,
      <<HrefA, HrefAFrag>>,
      <<HrefA, HrefA>>,
      <<HrefRel, HrefA>>,
      <<HrefTop, HrefA>>,
      <<HrefSecure, HrefA>>,
      <<HrefMail, HrefTel, HrefJs, HrefOther, HrefA>>,
      <<HrefOther, HrefA>>,
      <<HrefBad, HrefA>> }

SeqsUpTo(S, n) == UNION {[1..k -> S] : k \in 0..n}

PageURLs(e) == IF e = "large" THEN {P1} ELSE {P1, P2, P3}

\* the sitemap request is sent without a timeout (line 40): a server that
\* never answers gives NoResponse, and requests.get never returns
SitemapResponses(e) ==
    {[kind |-> "NoResponse", status |-> 0, locs |-> <<>>]}
    \cup
    IF e = "large"
    THEN {[kind |-> "response", status |-> 200, locs |-> <<P1>>]}
    ELSE {[kind |-> "response", status |-> 200, locs |-> l] :
             l \in SeqsUpTo(PageURLs(e), MaxPages)}
         \cup {[kind |-> "response", status |-> 500, locs |-> <<P1>>],
               [kind |-> "RequestException", status |-> 0, locs |-> <<>>]}

\* the page request has timeout=10 (line 91) and the probe LINK_TIMEOUT
\* (line 65): a server that never answers gives a Timeout, which is a
\* RequestException

PageResponses(e) ==
    IF e = "large"
    THEN {[kind |-> "response", status |-> 200, anchors |-> LargeAnchors]}
    ELSE {[kind |-> "response", status |-> 200, anchors |-> a] :
             a \in SitePages}
         \cup {[kind |-> "response", status |-> 404, anchors |-> <<HrefA>>],
               [kind |-> "RequestException", status |-> 0, anchors |-> <<>>]}

NetResults(e) ==
    IF e = "large" THEN {Response(200)}
    ELSE {Response(200), Response(404), Raised("Timeout")}

\* every normalised link a page of the web can yield
Range(f) == {f[x] : x \in DOMAIN f}
Hrefs(e) == IF e = "large" THEN Range(LargeAnchors) ELSE SiteHrefs
AllLinks(e) ==
    {NormalizedLink(p, h) :
        p \in PageURLs(e), h \in {x \in Hrefs(e) : ~RaisesValueError(x)}}

\* the orders in which a Python set S of these strings can be iterated: any
\* order on the small site; on the large page the order of the anchors
IterOrders(e, S) ==
    IF e = "large" THEN {SelectSeq(LargeAnchors, LAMBDA u : u \in S)}
    ELSE {s \in [1..Cardinality(S) -> S] : Range(s) = S}

\* ------------------------------------------------------------------ state
VARIABLES
    env,                   \* which web the run sees (fixed)
    sitemap_url,           \* sys.argv[1]
    pc,                    \* position of the main thread
    BASE_DOMAIN,           \* global, set by main
    page_urls,             \* main: result of get_sitemap_urls
    i,                     \* main: index of the page being scanned (1-based)
    link_cache,            \* global: url -> <<status, message>>
    cache_lock,            \* global: the thread holding the lock, or ""
    all_broken_links_map,  \* main: broken url -> set of pages
    broken_links_on_page,  \* check_page_links: list of (url, status, message)
    links_for_executor,    \* check_page_links: list of urls to probe
    futures,               \* url -> [st, result] of the submitted check_link
    exit_status,           \* -1 while running, else the process exit status
    sitemap_response,      \* history: what the sitemap request met
    scans,                 \* history: one record per page scan started
    probe_calls,           \* history: url -> number of check_link calls
    cache_writes,          \* history: url -> number of link_cache writes
    report,                \* broken_links_report.md: (url, pages) entries
    call                   \* a direct call of a pure function and its result

vars == <<env, sitemap_url, pc, BASE_DOMAIN, page_urls, i,
          link_cache, cache_lock, all_broken_links_map, broken_links_on_page,
          links_for_executor, futures, exit_status, sitemap_response, scans,
          probe_calls, cache_writes, report, call>>

world == <<env, sitemap_url, call>>
pool == <<links_for_executor, futures>>

EmptyMap == [u \in {} |-> {}]
NoCall == [fn |-> "none"]

\* m[key] = value, as a Python dict assignment
Put(m, key, value) ==
    [k \in DOMAIN m \cup {key} |-> IF k = key THEN value ELSE m[k]]
\* counter[key] += 1
Count(counter, key) ==
    Put(counter, key, IF key \in DOMAIN counter THEN counter[key] + 1 ELSE 1)

\* mutant: all_broken_links_map[url] = {page_url}
FoldReplace(map, broken_links, page_url) ==
    LET urls == {broken_links[k][1] : k \in 1..Len(broken_links)}
    IN  [u \in DOMAIN map \cup urls |->
            IF u \in urls THEN {page_url} ELSE map[u]]

\* lines 176-182: all_broken_links_map[url].add(page_url) for every finding
RECURSIVE Fold(_, _, _)
Fold(map, broken_links, page_url) ==
    IF broken_links = <<>> THEN map
    ELSE LET url == Head(broken_links)[1]
         IN  Fold(Put(map, url, (IF url \in DOMAIN map THEN map[url] ELSE {})
                                  \cup {page_url}),
                  Tail(broken_links), page_url)

InitRun(e) ==
    /\ env = e
    /\ sitemap_url \in (IF e = "large" THEN {SitemapUrl}
                        ELSE {SitemapUrl, NoHostUrl})
    /\ pc = "main"
    /\ BASE_DOMAIN = ""
    /\ page_urls = <<>>
    /\ i = 0
    /\ link_cache = EmptyMap
    /\ cache_lock = ""
    /\ all_broken_links_map = EmptyMap
    /\ broken_links_on_page = <<>>
    /\ links_for_executor = <<>>
    /\ futures = EmptyMap
    /\ exit_status = -1
    /\ sitemap_response = [kind |-> "none", status |-> 0]
    /\ scans = <<>>
    /\ probe_calls = EmptyMap
    /\ cache_writes = EmptyMap
    /\ report = <<>>
    /\ call = NoCall

Init == InitRun("site")

\* ---------------------------------------------------------------- actions
\* main, lines 151-159: the base domain from the sitemap URL, or exit(1)
MainBaseDomain ==
    /\ pc = "main"
    /\ BASE_DOMAIN' = hostname(urlparse(sitemap_url, "").netloc)
    /\ IF BASE_DOMAIN' = ""
       THEN pc' = "exit" /\ exit_status' = 1
       ELSE pc' = "sitemap" /\ UNCHANGED exit_status
    /\ UNCHANGED <<world, report, cache_lock,
                   pool, page_urls, i, link_cache,
                   all_broken_links_map, broken_links_on_page,
                   sitemap_response, scans, probe_calls, cache_writes>>

\* mutant: raise_for_status is not called
get_sitemap_urls_any_status(resp) == resp.locs

\* get_sitemap_urls(sitemap_url) under the response resp: the <loc> texts, or
\* [] when raise_for_status or the request raises
get_sitemap_urls(resp) ==
    IF resp.kind = "response" /\ resp.status < 400 THEN resp.locs ELSE <<>>

\* main, lines 162-170 and 231-233: load the sitemap; no page: exit(1).
\* With no response the main thread stays inside requests.get ("blocked").
GetSitemapUrls ==
    /\ pc = "sitemap"
    /\ \E resp \in SitemapResponses(env) :
         IF resp.kind = "NoResponse"
         THEN /\ pc' = "blocked"
              /\ UNCHANGED <<page_urls, sitemap_response, i, exit_status>>
         ELSE /\ page_urls' = get_sitemap_urls(resp)
              /\ sitemap_response' =
                    [kind |-> resp.kind, status |-> resp.status]
              /\ IF page_urls' # <<>>
                 THEN pc' = "scan" /\ i' = 1 /\ UNCHANGED exit_status
                 ELSE pc' = "exit" /\ i' = 0 /\ exit_status' = 1
    /\ UNCHANGED <<world, report, cache_lock,
                   pool, BASE_DOMAIN, link_cache,
                   all_broken_links_map,
                   broken_links_on_page, scans, probe_calls,
                   cache_writes>>

\* main, lines 171-184 after check_page_links returned broken_links for the
\* page i: fold them into the map and go on with the next page
Returned(broken_links) ==
    /\ all_broken_links_map' =
          Fold(all_broken_links_map, broken_links, page_urls[i])
    /\ i' = i + 1
    /\ pc' = IF i' > Len(page_urls) THEN "report" ELSE "scan"

\* lines 110-127: the partition of the page's links under cache_lock
Cached(links) ==
    {u \in links : InScope(u, BASE_DOMAIN) /\ u \in DOMAIN link_cache}
\* mutants of the partition: a failed probe is retried on the next page /
\* the cache is not consulted at all
ToProbeRetry(links) ==
    {u \in links : /\ InScope(u, BASE_DOMAIN)
                   /\ (u \in DOMAIN link_cache => IsFinding(link_cache[u][2]))}
ToProbeAll(links) == {u \in links : InScope(u, BASE_DOMAIN)}
ToProbe(links) ==
    {u \in links : InScope(u, BASE_DOMAIN) /\ u \notin DOMAIN link_cache}
\* mutant: a cache hit is never reported for the page
CachedFindingsNone(order) == <<>>
CachedFindings(order) ==
    LET hits == SelectSeq(order, LAMBDA u : /\ u \in Cached(Range(order))
                                            /\ IsFinding(link_cache[u][2]))
    IN  [k \in 1..Len(hits) |->
            <<hits[k], link_cache[hits[k]][1], link_cache[hits[k]][2]>>]
QueuedLinks(order) == SelectSeq(order, LAMBDA u : u \in ToProbe(Range(order)))

\* mutant: the failed fetch is reported as a finding of the page
OnRequestExceptionAsFinding(page_url, found) ==
    Append(found, <<page_url, -1, "ERROR (Page from sitemap)">>)

\* lines 142-145: a RequestException of the page fetch (Timeout,
\* ConnectionError, ...) is logged and broken_links_on_page is returned as it
\* is
OnRequestException(page_url, found) == found

\* mutant: a page that answers >= 400 is skipped with a warning
PageFindingNone(page_url, status_code) == <<>>

\* line 94: the page itself as the only finding
PageFinding(page_url, status_code) ==
    <<<<page_url, status_code, "BROKEN (Page from sitemap)">>>>

\* lines 110-131: with cache_lock held, every link of the page in the set's
\* iteration order: out of scope, cached (a finding or not), or queued; then
\* the queued links are submitted to a new pool, or the scan returns
Partition(links_on_page) ==
    \E order \in IterOrders(env, links_on_page) :
        IF QueuedLinks(order) = <<>>
        THEN \* lines 105-106, or nothing to submit
             /\ Returned(CachedFindings(order))
             /\ UNCHANGED <<pool, broken_links_on_page, exit_status>>
        ELSE /\ broken_links_on_page' = CachedFindings(order)
             /\ links_for_executor' = QueuedLinks(order)
             /\ futures' = [u \in Range(QueuedLinks(order)) |->
                               [st |-> "pending", page |-> i,
                                result |-> <<>>]]
             /\ pc' = "pool"
             /\ UNCHANGED <<i, all_broken_links_map, exit_status>>

\* check_page_links(page_url), lines 88-131: fetch the page, collect and
\* normalise its anchors, partition them, submit the probes.  Every return
\* before the pool is used goes straight back to main's loop.  With split,
\* the step ends when cache_lock is taken at line 110 and the partition is
\* a step of its own; without, the with-block is part of the step (no other
\* thread exists while it runs).
FetchPage(split) ==
    /\ pc = "scan"
    /\ \E resp \in PageResponses(env) :
         LET page_url == page_urls[i]
             hrefs == Range(resp.anchors)
             raises == \E h \in hrefs : RaisesValueError(h)
             \* line 97-103, reached only with a status below 400
             links_on_page ==
                 IF resp.kind # "response" \/ resp.status >= 400 \/ raises
                 THEN {}
                 ELSE {NormalizedLink(page_url, h) : h \in hrefs}
             scan == [page |-> page_url, kind |-> resp.kind,
                      status |-> resp.status, anchors |-> resp.anchors,
                      links |-> links_on_page]
         IN  /\ scans' = Append(scans, scan)
             /\ IF resp.kind # "response"
                THEN \* line 142: logged, returns the empty list of line 88
                     /\ Returned(OnRequestException(page_url, <<>>))
                     /\ UNCHANGED <<pool, broken_links_on_page, exit_status,
                                    cache_lock>>
                ELSE IF resp.status >= 400
                THEN \* line 94
                     /\ Returned(PageFinding(page_url, resp.status))
                     /\ UNCHANGED <<pool, broken_links_on_page, exit_status,
                                    cache_lock>>
                ELSE IF raises
                THEN \* lines 101-102 raise ValueError, which nothing catches:
                     \* the process ends with a traceback, status 1
                     /\ pc' = "exit" /\ exit_status' = 1
                     /\ UNCHANGED <<pool, broken_links_on_page, i,
                                    all_broken_links_map, cache_lock>>
                ELSE IF split /\ links_on_page # {}
                THEN \* line 110: the lock is free, main takes it
                     /\ cache_lock = ""
                     /\ cache_lock' = "main"
                     /\ pc' = "partition"
                     /\ UNCHANGED <<pool, broken_links_on_page, i,
                                    all_broken_links_map, exit_status>>
                ELSE /\ Partition(links_on_page)
                     /\ UNCHANGED cache_lock
    /\ UNCHANGED <<world, report, BASE_DOMAIN, page_urls, link_cache,
                   sitemap_response, probe_calls, cache_writes>>

CheckPageLinks == FetchPage(FALSE)

Running == {u \in DOMAIN futures : futures[u].st = "running"}
Pending == {u \in DOMAIN futures : futures[u].st = "pending"}

\* mutant: the pool starts a thread for every work item
ProbeStartUnbounded ==
    /\ pc = "pool"
    /\ Pending # {}
    /\ LET k == CHOOSE n \in 1..Len(links_for_executor) :
                  /\ links_for_executor[n] \in Pending
                  /\ \A m \in 1..(n - 1) : links_for_executor[m] \notin Pending
           url == links_for_executor[k]
       IN  /\ futures' = [futures EXCEPT ![url].st = "running"]
           /\ probe_calls' = Count(probe_calls, url)
    /\ UNCHANGED <<world, report, cache_lock,
                   pc, BASE_DOMAIN, page_urls, i, link_cache,
                   all_broken_links_map, broken_links_on_page,
                   links_for_executor, exit_status, sitemap_response, scans,
                   cache_writes>>

\* a worker thread of the pool takes the next work item: at most
\* MAX_WORKERS threads exist, items are taken in submission order
ProbeStart ==
    /\ pc = "pool"
    /\ Pending # {}
    /\ Cardinality(Running) < MAX_WORKERS
    /\ LET k == CHOOSE n \in 1..Len(links_for_executor) :
                  /\ links_for_executor[n] \in Pending
                  /\ \A m \in 1..(n - 1) : links_for_executor[m] \notin Pending
           url == links_for_executor[k]
       IN  /\ futures' = [futures EXCEPT ![url].st = "running"]
           /\ probe_calls' = Count(probe_calls, url)
    /\ UNCHANGED <<world, report, cache_lock,
                   pc, BASE_DOMAIN, page_urls, i, link_cache,
                   all_broken_links_map, broken_links_on_page,
                   links_for_executor, exit_status, sitemap_response, scans,
                   cache_writes>>

\* the worker's check_link(url) returns: the future is done
ProbeFinish ==
    /\ \E url \in Running, net \in NetResults(env) :
         futures' = [futures EXCEPT ![url].st = "done",
                                    ![url].result = check_link(url, net)]
    /\ UNCHANGED <<world, report, cache_lock,
                   pc, BASE_DOMAIN, page_urls, i, link_cache,
                   all_broken_links_map, broken_links_on_page,
                   links_for_executor, exit_status, sitemap_response, scans,
                   probe_calls, cache_writes>>

\* lines 134-140 for the future of u: its outcome is written into the cache
\* and, when it is a finding, appended to the page's list
WriteOutcome(u) ==
    /\ LET url == futures[u].result[1]
           status == futures[u].result[2]
           message == futures[u].result[3]
       IN  /\ link_cache' = Put(link_cache, url, <<status, message>>)
           /\ cache_writes' = Count(cache_writes, url)
           /\ broken_links_on_page' =
                 IF IsFinding(message)
                 THEN Append(broken_links_on_page, <<url, status, message>>)
                 ELSE broken_links_on_page
    /\ futures' = [futures EXCEPT ![u].st = "yielded"]

\* lines 133-140: the main thread takes a completed future, writes its
\* outcome into the cache under cache_lock and records a finding.  No other
\* thread ever takes cache_lock, so the with-block is part of the step.
AsCompleted ==
    /\ pc = "pool"
    /\ \E u \in DOMAIN futures :
         /\ futures[u].st = "done"
         /\ WriteOutcome(u)
    /\ UNCHANGED <<world, report, cache_lock,
                   pc, BASE_DOMAIN, page_urls, i,
                   all_broken_links_map, links_for_executor, exit_status,
                   sitemap_response, scans, probe_calls>>

\* mutant: the scan returns once every probe was started, without waiting
\* for the pool
PageDoneEarly ==
    /\ pc = "pool"
    /\ Pending = {}
    /\ Returned(broken_links_on_page)
    /\ broken_links_on_page' = <<>>
    /\ UNCHANGED <<world, report, cache_lock,
                   pool, BASE_DOMAIN, page_urls, link_cache,
                   exit_status, sitemap_response, scans, probe_calls,
                   cache_writes>>

\* lines 133, 130, 145: as_completed is exhausted when every future was
\* yielded; the executor shuts down and check_page_links returns
PageDone ==
    /\ pc = "pool"
    /\ \A u \in DOMAIN futures : futures[u].st = "yielded"
    /\ Returned(broken_links_on_page)
    /\ broken_links_on_page' = <<>>
    /\ UNCHANGED <<world, report, cache_lock,
                   pool, BASE_DOMAIN, page_urls, link_cache,
                   exit_status, sitemap_response, scans, probe_calls,
                   cache_writes>>

\* Python's order of the URL strings of the webs (str.__lt__, code point by
\* code point), ascending:
\*   http://other/b < http://other/p2 < http://site/a < http://site/b
\*   < http://site/l01 < ... < http://site/l16 < http://site/p1
\*   < http://site/p3 < https://site/a < javascript:void(0) < mailto:x@y
\*   < tel:+123
StringOrder ==
    << Str("http", "other", AbsPath(<<"b">>), <<>>, <<>>),
       Str("http", "other", AbsPath(<<"p2">>), <<>>, <<>>),
       Str("http", "site", AbsPath(<<"a">>), <<>>, <<>>),
       Str("http", "site", AbsPath(<<"b">>), <<>>, <<>>) >>
    \o [k \in 1..Len(LinkName) |->
           Str("http", "site", AbsPath(<<LinkName[k]>>), <<>>, <<>>)]
    \o << Str("http", "site", AbsPath(<<"p1">>), <<>>, <<>>),
          Str("http", "site", AbsPath(<<"p3">>), <<>>, <<>>),
          Str("https", "site", AbsPath(<<"a">>), <<>>, <<>>),
          Str("javascript", "", RelPath(<<"void(0)">>), <<>>, <<>>),
          Str("mailto", "", RelPath(<<"x@y">>), <<>>, <<>>),
          Str("tel", "", RelPath(<<"+123">>), <<>>, <<>>) >>

\* mutant: sorted(..., reverse=True)
sortedReverse(S) ==
    LET asc == SelectSeq(StringOrder, LAMBDA u : u \in S)
    IN  [k \in 1..Len(asc) |-> asc[Len(asc) + 1 - k]]

\* sorted(S) for a collection S of distinct strings
sorted(S) == SelectSeq(StringOrder, LAMBDA u : u \in S)

\* lines 208-217: one entry per broken url in sorted order, each with its
\* pages in sorted order (the keys of a dict are distinct, so sorting the
\* items never compares two sets)
ReportEntries(map) ==
    LET keys == sorted(DOMAIN map)
    IN  [k \in 1..Len(keys) |-> <<keys[k], sorted(map[keys[k]])>>]

\* mutant: the run always exits with status 0
MainReportAlwaysZero ==
    /\ pc = "report"
    /\ exit_status' = 0
    /\ report' = ReportEntries(all_broken_links_map)
    /\ pc' = "exit"
    /\ UNCHANGED <<world, cache_lock, pool, BASE_DOMAIN, page_urls, i, link_cache,
                   all_broken_links_map, broken_links_on_page,
                   sitemap_response, scans, probe_calls, cache_writes>>

\* main, lines 186-230: summary, report, exit status
MainReport ==
    /\ pc = "report"
    /\ exit_status' = IF DOMAIN all_broken_links_map # {} THEN 1 ELSE 0
    /\ report' = ReportEntries(all_broken_links_map)
    /\ pc' = "exit"
    /\ UNCHANGED <<world, cache_lock, pool, BASE_DOMAIN, page_urls, i, link_cache,
                   all_broken_links_map, broken_links_on_page,
                   sitemap_response, scans, probe_calls, cache_writes>>

Next ==
    \/ MainBaseDomain
    \/ GetSitemapUrls
    \/ CheckPageLinks
    \/ ProbeStart
    \/ ProbeFinish
    \/ AsCompleted
    \/ PageDone
    \/ MainReport

Spec == Init /\ [][Next]_vars

\* the run over the large page: more links than pool threads
InitLarge == InitRun("large")
SpecLarge == InitLarge /\ [][Next]_vars

\* --------------------------------------------- the run with the lock steps
\* The same run with taking cache_lock as a step of its own, so that the
\* states in which the main thread holds the lock while the workers run are
\* states of the model.
CheckPageLinksLock == FetchPage(TRUE)

\* lines 111-131 with the lock held, released at the end of the with-block
CheckPageLinksPartition ==
    /\ pc = "partition"
    /\ cache_lock = "main"
    /\ Partition(scans[Len(scans)].links)
    /\ cache_lock' = ""
    /\ UNCHANGED <<world, report, BASE_DOMAIN, page_urls, link_cache,
                   sitemap_response, scans, probe_calls, cache_writes>>

\* mutant: the with-statement of line 136 is missing
AsCompletedLockMissing ==
    /\ pc = "pool"
    /\ \E u \in DOMAIN futures :
         /\ futures[u].st = "done"
         /\ futures' = [futures EXCEPT ![u].st = "locked"]
    /\ UNCHANGED <<world, report, cache_lock,
                   pc, BASE_DOMAIN, page_urls, i, link_cache,
                   all_broken_links_map, broken_links_on_page,
                   links_for_executor, exit_status, sitemap_response, scans,
                   probe_calls, cache_writes>>

\* lines 133-136: as_completed yields a done future and the main thread
\* takes cache_lock
AsCompletedLock ==
    /\ pc = "pool"
    /\ cache_lock = ""
    /\ cache_lock' = "main"
    /\ \E u \in DOMAIN futures :
         /\ futures[u].st = "done"
         /\ futures' = [futures EXCEPT ![u].st = "locked"]
    /\ UNCHANGED <<world, report, pc, BASE_DOMAIN, page_urls, i, link_cache,
                   all_broken_links_map, broken_links_on_page,
                   links_for_executor, exit_status, sitemap_response, scans,
                   probe_calls, cache_writes>>

\* lines 137-140: the write, the end of the with-block, the finding
AsCompletedWrite ==
    /\ pc = "pool"
    /\ \E u \in DOMAIN futures :
         /\ futures[u].st = "locked"
         /\ WriteOutcome(u)
    /\ cache_lock' = ""
    /\ UNCHANGED <<world, report, pc, BASE_DOMAIN, page_urls, i,
                   all_broken_links_map, links_for_executor, exit_status,
                   sitemap_response, scans, probe_calls>>

NextLock ==
    \/ MainBaseDomain
    \/ GetSitemapUrls
    \/ CheckPageLinksLock
    \/ CheckPageLinksPartition
    \/ ProbeStart
    \/ ProbeFinish
    \/ AsCompletedLock
    \/ AsCompletedWrite
    \/ PageDone
    \/ MainReport

SpecLock == Init /\ [][NextLock]_vars

\* ------------------------------------------------ check_link called alone
\* every URL string of the webs, raw or normalised
ProbeInputs == SiteHrefs \cup AllLinks("site")

\* final status codes and exceptions of requests.get
ProbeNetResults ==
    {Response(c) : c \in {200, 301, 399, 400, 404, 500}}
    \cup {Raised("Timeout"), Raised("ConnectionError"),
          Raised("RequestException")}

InitCheckLink ==
    /\ env = "site"
    /\ sitemap_url = SitemapUrl
    /\ pc = "call"
    /\ BASE_DOMAIN = ""
    /\ page_urls = <<>>
    /\ i = 0
    /\ link_cache = EmptyMap
    /\ cache_lock = ""
    /\ all_broken_links_map = EmptyMap
    /\ broken_links_on_page = <<>>
    /\ links_for_executor = <<>>
    /\ futures = EmptyMap
    /\ exit_status = -1
    /\ sitemap_response = [kind |-> "none", status |-> 0]
    /\ scans = <<>>
    /\ probe_calls = EmptyMap
    /\ cache_writes = EmptyMap
    /\ report = <<>>
    /\ \E url \in ProbeInputs, net \in ProbeNetResults :
         call = [fn |-> "check_link", url |-> url, net |-> net, ret |-> <<>>]

CallCheckLink ==
    /\ pc = "call"
    /\ call.fn = "check_link"
    /\ call.ret = <<>>
    /\ call' = [call EXCEPT !.ret = check_link(call.url, call.net)]
    /\ UNCHANGED <<env, sitemap_url, pc, BASE_DOMAIN, page_urls, i, report,
                   cache_lock,
                   link_cache, all_broken_links_map, broken_links_on_page,
                   links_for_executor, futures, exit_status,
                   sitemap_response, scans, probe_calls, cache_writes>>

NextCheckLink == CallCheckLink

SpecCheckLink == InitCheckLink /\ [][NextCheckLink]_vars

\* ----------------------------------------------------------------- claims
FetchedOk(k) == scans[k].kind = "response" /\ scans[k].status < 400
SitemapLoaded ==
    sitemap_response.kind = "response" /\ sitemap_response.status < 400
\* main's loop went through every page of a non-empty sitemap
AllProcessed == page_urls # <<>> /\ i = Len(page_urls) + 1
NoDuplicates(s) == \A m, n \in 1..Len(s) : m # n => s[m] # s[n]
Unfinished == {u \in DOMAIN futures : futures[u].st # "yielded"}

\* C1: every normalised URL is passed to check_link at most once in a run: a
\* URL that is queued or being probed is not in the cache (a cached URL,
\* whatever its outcome, is never queued again), and the list of URLs queued
\* for a page holds no URL twice.
C1_ProbedAtMostOnce ==
    /\ \A u \in DOMAIN probe_calls : probe_calls[u] <= 1
    /\ NoDuplicates(links_for_executor)
    /\ \A u \in Unfinished : u \notin DOMAIN link_cache

\* a page held the same link twice, a later page held it again, its probe
\* had failed, and it was probed once
C1_Witness ==
    /\ pc = "report"
    /\ Len(scans) = 2
    /\ scans[1].anchors = <<HrefA, HrefA>>
    /\ HrefA \in scans[2].links
    /\ HrefA \in DOMAIN link_cache
    /\ IsFinding(link_cache[HrefA][2])
    /\ probe_calls[HrefA] = 1

\* C2: when the run has processed every page, a broken or errored in-scope
\* URL referenced by two successfully fetched pages lists both pages in
\* all_broken_links_map, and it was probed once.
C2_BothPagesListed ==
    AllProcessed =>
        \A k1, k2 \in 1..Len(scans) :
            \A u \in scans[k1].links \cap scans[k2].links :
                ( /\ FetchedOk(k1) /\ FetchedOk(k2)
                  /\ u \in DOMAIN link_cache
                  /\ IsFinding(link_cache[u][2]) )
                => /\ u \in DOMAIN all_broken_links_map
                   /\ {scans[k1].page, scans[k2].page}
                         \subseteq all_broken_links_map[u]
                   /\ probe_calls[u] = 1

\* two different pages referenced the same URL, whose probe timed out
C2_Witness ==
    /\ pc = "exit"
    /\ AllProcessed
    /\ Len(scans) = 2
    /\ scans[1].page # scans[2].page
    /\ FetchedOk(1) /\ FetchedOk(2)
    /\ \E u \in scans[1].links \cap scans[2].links :
         /\ u \in DOMAIN link_cache
         /\ link_cache[u][2] = "ERROR (Timeout)"
         /\ all_broken_links_map[u] = {scans[1].page, scans[2].page}

\* C3: the cache is write-once: a step never removes a key nor changes the
\* outcome stored under it, and every write goes to a key that was absent.
C3_WriteOnceStep ==
    /\ \A u \in DOMAIN link_cache :
         u \in DOMAIN link_cache' /\ link_cache'[u] = link_cache[u]
    /\ \A u \in DOMAIN cache_writes' :
         (u \notin DOMAIN cache_writes \/ cache_writes'[u] # cache_writes[u])
         => /\ u \notin DOMAIN link_cache
            /\ u \in DOMAIN link_cache'
C3_CacheWriteOnce == [][C3_WriteOnceStep]_vars

\* the second page met a cached failure and added a second key
C3_Witness ==
    /\ Len(scans) = 2
    /\ \E u \in scans[1].links \cap scans[2].links :
         u \in DOMAIN link_cache /\ IsFinding(link_cache[u][2])
    /\ Cardinality(DOMAIN link_cache) = 2
    /\ \A u \in DOMAIN link_cache : cache_writes[u] = 1

\* C4: the exit status is 0 exactly when the sitemap loaded, held a page,
\* every page was processed and all_broken_links_map is empty; it is 1 when
\* the sitemap did not load, held no page, or a finding was recorded.
C4_ExitStatus ==
    /\ pc # "exit" => exit_status = -1
    /\ pc = "exit" =>
         /\ exit_status \in {0, 1}
         /\ exit_status = 0 <=>
               ( /\ SitemapLoaded /\ page_urls # <<>> /\ AllProcessed
                 /\ DOMAIN all_broken_links_map = {} )
         /\ ( \/ ~SitemapLoaded \/ page_urls = <<>>
              \/ DOMAIN all_broken_links_map # {} ) => exit_status = 1

\* a run over two pages with probed links ended with status 0
C4_Witness ==
    /\ pc = "exit"
    /\ exit_status = 0
    /\ Len(scans) = 2
    /\ DOMAIN link_cache # {}

\* the link is outside the scope of the run: not http(s), or another host
OutOfScope(u) ==
    u.scheme \notin {"http", "https"} \/ hostname(u.netloc) # BASE_DOMAIN

\* C5 as stated: a link outside the scope is never queued or probed and is
\* never a key of the cache or of all_broken_links_map.
C5_Original ==
    \A k \in 1..Len(scans) : \A u \in scans[k].links :
        OutOfScope(u) =>
            /\ u \notin DOMAIN futures
            /\ u \notin DOMAIN probe_calls
            /\ u \notin DOMAIN link_cache
            /\ u \notin DOMAIN all_broken_links_map

\* C5 amended: a link outside the scope is never queued or probed and is
\* never a key of the cache; it is a key of all_broken_links_map only when
\* the same URL is a sitemap page whose own fetch returned a status >= 400,
\* and then the only page listed for it is that page itself.
C5_ScopeFilter ==
    \A k \in 1..Len(scans) : \A u \in scans[k].links :
        OutOfScope(u) =>
            /\ u \notin DOMAIN futures
            /\ u \notin DOMAIN probe_calls
            /\ u \notin DOMAIN link_cache
            /\ u \in DOMAIN all_broken_links_map =>
                 /\ \E j \in 1..Len(scans) :
                      /\ scans[j].page = u
                      /\ scans[j].kind = "response"
                      /\ scans[j].status >= 400
                 /\ all_broken_links_map[u] = {u}

\* a page linked to an external URL that is itself a broken sitemap page
C5_Witness ==
    /\ pc = "report"
    /\ \E k \in 1..Len(scans) : \E u \in scans[k].links :
         /\ OutOfScope(u)
         /\ FetchedOk(k)
         /\ scans[k].page # u
         /\ u \in DOMAIN all_broken_links_map

\* C6: once the sitemap request failed, or succeeded with no page, the run
\* has ended with status 1 and nothing was fetched, probed, cached or
\* recorded.
C6_SitemapFailure ==
    ( /\ sitemap_response.kind # "none"
      /\ (~SitemapLoaded \/ page_urls = <<>>) )
    => /\ pc = "exit"
       /\ exit_status = 1
       /\ scans = <<>>
       /\ DOMAIN futures = {}
       /\ DOMAIN probe_calls = {}
       /\ DOMAIN link_cache = {}
       /\ DOMAIN all_broken_links_map = {}

\* the sitemap request returned HTTP 500
C6_Witness ==
    /\ pc = "exit"
    /\ sitemap_response.kind = "response"
    /\ sitemap_response.status = 500
    /\ exit_status = 1

\* C7: check_link returns its input URL; SKIPPED with status 0 whatever the
\* network would do for mailto:, tel:, javascript: and # URLs; otherwise
\* BROKEN with the status when it is >= 400, OK below 400, and the three
\* ERROR messages for a timeout, a connection error and any other request
\* exception.
C7_Classification ==
    (call.fn = "check_link" /\ call.ret # <<>>) =>
        LET url == call.url
            net == call.net
            ret == call.ret
        IN  /\ ret[1] = url
            /\ IF StartsWithSkipped(url)
               THEN ret[2] = 0 /\ ret[3] = "SKIPPED"
               ELSE /\ (net.kind = "response" /\ net.status >= 400)
                       => (ret[3] = "BROKEN" /\ ret[2] = net.status)
                    /\ (net.kind = "response" /\ net.status < 400)
                       => (ret[3] = "OK" /\ ret[2] = net.status)
                    /\ net.kind = "Timeout" => ret[3] = "ERROR (Timeout)"
                    /\ net.kind = "ConnectionError"
                       => ret[3] = "ERROR (Connection)"
                    /\ net.kind = "RequestException"
                       => ret[3] = "ERROR (Jina chyba)"

\* a probe that met status 400 exactly
C7_Witness ==
    /\ call.fn = "check_link"
    /\ call.ret # <<>>
    /\ call.net = Response(400)
    /\ call.ret[3] = "BROKEN"

\* the page's anchors were all parsed (no ValueError)
Parsed(k) ==
    FetchedOk(k) /\ \A h \in Range(scans[k].anchors) : ~RaisesValueError(h)
StripFragment(u) == [u EXCEPT !.fragment = <<>>]
\* the fragment and the bare "?" of an empty query removed
StripFragmentAndBareQuery(u) ==
    [u EXCEPT !.fragment = <<>>,
              !.query = IF u.query = <<"">> THEN <<>> ELSE u.query]

\* C8: normalisation removes only the fragment, so the links of a page are
\* its resolved hrefs with the fragment removed and the rest of the string
\* kept verbatim.
C8_Original ==
    \A k \in 1..Len(scans) :
        Parsed(k) =>
            scans[k].links = {StripFragment(urljoin(scans[k].page, h)) :
                                 h \in Range(scans[k].anchors)}

\* What geturl() at line 102 does instead: two hrefs of a page that resolve
\* to URLs differing only in the fragment give one link, hence one probe and
\* one cache entry; normalisation removes the fragment and also the bare "?"
\* of an empty query, keeps the rest of the string, and is idempotent.
C8_FragmentInvariance ==
    /\ \A k \in 1..Len(scans) :
         Parsed(k) =>
            /\ scans[k].links =
                  {StripFragmentAndBareQuery(urljoin(scans[k].page, h)) :
                      h \in Range(scans[k].anchors)}
            /\ \A u \in scans[k].links : Normalize(u) = u
            /\ \A h1, h2 \in Range(scans[k].anchors) :
                  StripFragment(urljoin(scans[k].page, h1))
                     = StripFragment(urljoin(scans[k].page, h2))
                  => Cardinality({u \in scans[k].links :
                        u \in {NormalizedLink(scans[k].page, h1),
                               NormalizedLink(scans[k].page, h2)}}) = 1
    /\ \A u \in DOMAIN probe_calls : u.fragment = <<>> /\ probe_calls[u] = 1
    /\ \A u \in DOMAIN link_cache : u.fragment = <<>> /\ cache_writes[u] = 1

\* a page with http://site/a and http://site/a#f1: one link, one probe, one
\* cache entry
C8_Witness ==
    \E k \in 1..Len(scans) :
        /\ scans[k].anchors = <<HrefA, HrefAFrag>>
        /\ scans[k].links = {HrefA}
        /\ DOMAIN link_cache = {HrefA}
        /\ probe_calls[HrefA] = 1
        /\ cache_writes[HrefA] = 1

\* C9: pages are scanned one after another in sitemap order, and outside
\* the pool phase of a page no probe is queued, running or waiting to be
\* collected: the next page is fetched only after every probe of the current
\* page has returned, so all probes in flight belong to one page.
C9_PageBarrier ==
    /\ pc # "pool" => Unfinished = {}
    /\ pc = "pool" =>
         /\ Len(scans) = i
         /\ \A u \in DOMAIN futures : futures[u].page = i
    /\ pc = "scan" => Len(scans) = i - 1
    /\ Len(scans) <= Len(page_urls)
    /\ \A k \in 1..Len(scans) : scans[k].page = page_urls[k]

\* the probes of the first page are in the cache while a probe of the second
\* page runs
C9_Witness ==
    /\ pc = "pool"
    /\ i = 2
    /\ Running # {}
    /\ DOMAIN link_cache # {}
    /\ \A u \in DOMAIN link_cache : u \notin DOMAIN futures

\* C10: at most MAX_WORKERS probes run at once; with MAX_WORKERS running the
\* queued probes cannot start; a queued probe is never stuck (with no probe
\* running the next one can start); and the page scan is left only when
\* every queued probe has been executed once.
C10_BoundedPool ==
    /\ Cardinality(Running) <= MAX_WORKERS
    /\ Cardinality(Running) = MAX_WORKERS => ~ENABLED ProbeStart
    /\ (pc = "pool" /\ Pending # {} /\ Running = {}) => ENABLED ProbeStart
    /\ Pending # {} => pc = "pool"
    /\ pc # "pool" =>
         \A u \in Range(links_for_executor) :
            futures[u].st = "yielded" /\ probe_calls[u] = 1

\* the pool is full and a probe is still queued
C10_Witness ==
    /\ Cardinality(Running) = MAX_WORKERS
    /\ Pending # {}
    /\ Cardinality(DOMAIN futures) > MAX_WORKERS

\* the step by which a page scan ends at its fetch, with a record of that
\* kind in the history
ScanStep == Len(scans') = Len(scans) + 1
LastScan == scans'[Len(scans')]

\* C11: a page scan whose fetch raised a request exception (timeout,
\* connection failure) returns no finding, starts no probe and leaves
\* link_cache and all_broken_links_map as they were; the run is not aborted:
\* main goes on with the next page of the sitemap, or with the report after
\* the last page.
C11_FetchFailureStep ==
    (ScanStep /\ LastScan.kind # "response") =>
        /\ LastScan.page = page_urls[i]
        /\ link_cache' = link_cache
        /\ all_broken_links_map' = all_broken_links_map
        /\ probe_calls' = probe_calls
        /\ futures' = futures
        /\ broken_links_on_page' = <<>>
        /\ exit_status' = -1
        /\ i' = i + 1
        /\ IF i < Len(page_urls)
           THEN pc' = "scan" /\ page_urls[i'] = page_urls'[i']
           ELSE pc' = "report"
C11_PageFetchFailure == [][C11_FetchFailureStep]_vars

\* the fetch of the first page failed after nothing was recorded, and the
\* second page was scanned and its link probed
C11_Witness ==
    /\ Len(scans) = 2
    /\ scans[1].kind = "RequestException"
    /\ FetchedOk(2)
    /\ DOMAIN link_cache # {}
    /\ \A u \in DOMAIN link_cache : probe_calls[u] = 1

\* C12: a page scan whose fetch returned a status >= 400 extracts no link,
\* starts no probe and leaves link_cache as it was; its one finding is the
\* page itself: all_broken_links_map changes at the page's URL only, whose
\* set gains the page's URL, and main goes on with the next page.
C12_PageBrokenStep ==
    (ScanStep /\ LastScan.kind = "response" /\ LastScan.status >= 400) =>
        LET page_url == page_urls[i]
        IN  /\ LastScan.page = page_url
            /\ LastScan.links = {}
            /\ link_cache' = link_cache
            /\ probe_calls' = probe_calls
            /\ futures' = futures
            /\ DOMAIN all_broken_links_map' =
                  DOMAIN all_broken_links_map \cup {page_url}
            /\ all_broken_links_map'[page_url] =
                  (IF page_url \in DOMAIN all_broken_links_map
                   THEN all_broken_links_map[page_url] ELSE {})
                  \cup {page_url}
            /\ \A u \in DOMAIN all_broken_links_map :
                  u # page_url =>
                     all_broken_links_map'[u] = all_broken_links_map[u]
            /\ i' = i + 1
            /\ pc' = IF i < Len(page_urls) THEN "scan" ELSE "report"
C12_PageItselfBroken == [][C12_PageBrokenStep]_vars

\* after a page whose link was probed and found fine, a page answered 404
\* with a link in its body: the only finding is that page, under itself
C12_Witness ==
    /\ Len(scans) = 2
    /\ FetchedOk(1)
    /\ scans[2].kind = "response" /\ scans[2].status = 404
    /\ scans[2].anchors # <<>>
    /\ scans[2].page # scans[1].page
    /\ DOMAIN link_cache = {HrefA}
    /\ DOMAIN all_broken_links_map = {scans[2].page}
    /\ all_broken_links_map[scans[2].page] = {scans[2].page}

\* the page was fetched with a status below 400 and holds a malformed href
HasMalformedHref(k) ==
    FetchedOk(k) /\ \E h \in Range(scans[k].anchors) : RaisesValueError(h)

\* C13: a malformed href is discarded alone: the links of its page are the
\* page's other hrefs, normalised, and the run does not end at that page
\* (it ends only after main's loop has gone through every page).
C13_MalformedHrefDiscarded ==
    \A k \in 1..Len(scans) :
        HasMalformedHref(k) =>
            /\ scans[k].links =
                  {NormalizedLink(scans[k].page, h) :
                      h \in {x \in Range(scans[k].anchors) :
                                ~RaisesValueError(x)}}
            /\ pc = "exit" => AllProcessed

\* the (url, page) findings the inputs of the run determine: the pages
\* whose own fetch returned >= 400, and the in-scope links of the fetched
\* pages whose probe outcome is BROKEN or ERROR
InputFindings ==
    {<<scans[k].page, scans[k].page>> :
        k \in {j \in 1..Len(scans) :
                 scans[j].kind = "response" /\ scans[j].status >= 400}}
    \cup UNION {{<<u, scans[k].page>> :
                    u \in {x \in scans[k].links :
                             /\ InScope(x, BASE_DOMAIN)
                             /\ x \in DOMAIN link_cache
                             /\ IsFinding(link_cache[x][2])}} :
                k \in {j \in 1..Len(scans) : FetchedOk(j)}}
InputMap ==
    [u \in {f[1] : f \in InputFindings} |->
        {f[2] : f \in {g \in InputFindings : g[1] = u}}]
Position(u) == CHOOSE k \in 1..Len(StringOrder) : StringOrder[k] = u
\* a list of strings in strictly ascending order
Ascending(s) ==
    \A m, n \in 1..Len(s) : m < n => Position(s[m]) < Position(s[n])

\* C14: when the run has reported, all_broken_links_map is the map the page
\* contents and the per-URL probe outcomes determine, whatever the order in
\* which the probes completed and the links were iterated; the report lists
\* exactly its keys in ascending string order, each with exactly its pages
\* in ascending string order.
C14_Deterministic ==
    (pc = "exit" /\ AllProcessed) =>
        /\ all_broken_links_map = InputMap
        /\ Len(report) = Cardinality(DOMAIN all_broken_links_map)
        /\ {report[k][1] : k \in 1..Len(report)} = DOMAIN all_broken_links_map
        /\ Ascending([k \in 1..Len(report) |-> report[k][1]])
        /\ \A k \in 1..Len(report) :
              /\ Range(report[k][2]) = all_broken_links_map[report[k][1]]
              /\ Len(report[k][2]) =
                    Cardinality(all_broken_links_map[report[k][1]])
              /\ Ascending(report[k][2])

\* two probes of one page failed, and one of the URLs was found on a second
\* page too: two report entries, one of them with two pages
C14_Witness ==
    /\ pc = "exit"
    /\ Len(report) = 2
    /\ \E k \in 1..Len(scans) :
         /\ Cardinality(scans[k].links) = 2
         /\ scans[k].links = DOMAIN all_broken_links_map
    /\ \E k \in 1..2 : Len(report[k][2]) = 2

\* C15: no request of the run blocks it forever: outside the exit state the
\* run can always take a step.
C15_NoRequestBlocks == pc # "exit" => ENABLED Next

\* What holds instead: under weak fairness of the steps of the run (every
\* thread that can run does run), the run ends in an exit state or stays
\* blocked in the sitemap request.
FairSpec == Spec /\ WF_vars(Next)
C15_ExitsOrBlocked == <>(pc \in {"exit", "blocked"})

\* a worker thread of the pool took a step: a probe started or finished
WorkerStep ==
    \E u \in DOMAIN futures :
        /\ u \in DOMAIN futures'
        /\ \/ futures[u].st = "pending" /\ futures'[u].st = "running"
           \/ futures[u].st = "running" /\ futures'[u].st = "done"
\* the worker's result depends on its URL and on the network only
WorkerResult ==
    \A u \in DOMAIN futures :
        (futures[u].st = "running" /\ futures'[u].st = "done") =>
            \E net \in NetResults(env) :
                futures'[u].result = check_link(u, net)

\* C16: during the page scans the cache is read (the partition) and written
\* only in steps of the main thread taken while it holds cache_lock; the
\* lock is held by the main thread only, and only inside its two
\* with-blocks; a step of a worker thread changes neither the cache nor the
\* findings (the page's list, all_broken_links_map) nor the lock, and its
\* result does not depend on them.
C16_LockStep ==
    /\ link_cache' # link_cache =>
          /\ cache_lock = "main" /\ cache_lock' = ""
          /\ pc = "pool" /\ ~WorkerStep
    /\ pc = "partition" => cache_lock = "main"
    /\ cache_lock \in {"", "main"}
    /\ cache_lock = "main" <=>
          \/ pc = "partition"
          \/ pc = "pool" /\ \E u \in DOMAIN futures : futures[u].st = "locked"
    /\ Cardinality({u \in DOMAIN futures : futures[u].st = "locked"}) <= 1
    /\ WorkerStep =>
          /\ link_cache' = link_cache
          /\ cache_lock' = cache_lock
          /\ broken_links_on_page' = broken_links_on_page
          /\ all_broken_links_map' = all_broken_links_map
          /\ WorkerResult
C16_SharedStateExclusion == [][C16_LockStep]_vars

\* the main thread holds cache_lock for a cache write while a probe runs in
\* a worker thread
C16_Witness ==
    /\ pc = "pool"
    /\ cache_lock = "main"
    /\ Running # {}
    /\ \E u \in DOMAIN futures : futures[u].st = "locked"

\* the number of check_link calls so far
RECURSIVE SumOver(_, _)
SumOver(f, S) ==
    IF S = {} THEN 0
    ELSE LET u == CHOOSE x \in S : TRUE
         IN  f[u] + SumOver(f, S \ {u})
TotalProbes == SumOver(probe_calls, DOMAIN probe_calls)
\* the distinct in-scope normalised URLs found on the pages fetched with a
\* status below 400
InScopeFound ==
    {u \in UNION {{NormalizedLink(scans[k].page, h) :
                      h \in {x \in Range(scans[k].anchors) :
                                ~RaisesValueError(x)}} :
                  k \in {j \in 1..Len(scans) : FetchedOk(j)}} :
        InScope(u, BASE_DOMAIN)}
CacheIsProbesIsFound ==
    /\ Cardinality(DOMAIN link_cache) = TotalProbes
    /\ TotalProbes = Cardinality(InScopeFound)

\* C17: between the page scans, and when the run has ended, the number of
\* keys of link_cache equals the number of check_link calls made so far,
\* which equals the number of distinct in-scope normalised URLs found on the
\* pages fetched with a status below 400.
C17_CacheSizeEqualsProbes ==
    pc \in {"scan", "report", "exit"} => CacheIsProbesIsFound

\* What holds instead: the same, as long as no fetched page held a malformed
\* href (the run then ended inside that page's scan, see C13).
C17_UnlessMalformedHref ==
    ( /\ pc \in {"scan", "report", "exit"}
      /\ \A k \in 1..Len(scans) : ~HasMalformedHref(k) )
    => CacheIsProbesIsFound

\* C18: no URL queued for or passed to check_link starts with mailto:,
\* tel:, javascript: or #, no probe returns SKIPPED and no cache entry holds
\* SKIPPED: such links never pass the scope test.
C18_NeverSkipped ==
    /\ \A u \in Range(links_for_executor) \cup DOMAIN futures
                \cup DOMAIN probe_calls \cup DOMAIN link_cache :
          ~StartsWithSkipped(u)
    /\ \A u \in DOMAIN futures :
          futures[u].result # <<>> => futures[u].result[3] # "SKIPPED"
    /\ \A u \in DOMAIN link_cache : link_cache[u][2] # "SKIPPED"

\* a page with a mailto:, a tel: and a javascript: link and an internal link
\* was scanned, and only the internal link was probed and cached
C18_Witness ==
    /\ Len(scans) = 1
    /\ FetchedOk(1)
    /\ {HrefMail, HrefTel, HrefJs} \subseteq scans[1].links
    /\ DOMAIN probe_calls = {HrefA}
    /\ DOMAIN link_cache = {HrefA}

\* the href is a fragment only ("#section")
FragmentOnly(h) ==
    /\ h.scheme = "" /\ h.netloc = "" /\ h.path = EmptyPath
    /\ h.query = <<>> /\ h.fragment # <<>>
\* the scans of in-scope pages, fetched and parsed, that hold such an href
SelfLinkScans ==
    {k \in 1..Len(scans) :
        /\ Parsed(k)
        /\ InScope(scans[k].page, BASE_DOMAIN)
        /\ \E h \in Range(scans[k].anchors) : FragmentOnly(h)}

\* C19: a fragment-only href on a fetched in-scope page P gives the link P
\* itself; when the partition of that scan is done P is in the cache or
\* queued for a probe; when the scan has returned P is in the cache, was
\* probed exactly once in the run, and if its outcome is BROKEN or ERROR, P
\* is a key of all_broken_links_map with P among its pages.
C19_FragmentOnlyLink ==
    \A k \in SelfLinkScans :
        LET P == scans[k].page
        IN  /\ \A h \in Range(scans[k].anchors) :
                  FragmentOnly(h) => NormalizedLink(P, h) = P
            /\ P \in scans[k].links
            /\ (k = i /\ pc = "pool") =>
                  P \in DOMAIN link_cache \cup DOMAIN futures
            /\ k < i =>
                  /\ P \in DOMAIN link_cache
                  /\ probe_calls[P] = 1
                  /\ IsFinding(link_cache[P][2]) =>
                        /\ P \in DOMAIN all_broken_links_map
                        /\ P \in all_broken_links_map[P]

\* page http://site/p1 with href="#top" was fetched with status 200, the
\* probe of http://site/p1 then met 404: the page references itself
C19_Witness ==
    /\ 1 \in SelfLinkScans
    /\ i > 1
    /\ scans[1].page = P1
    /\ link_cache[P1] = <<404, "BROKEN">>
    /\ P1 \in all_broken_links_map[P1]

\* the URL is a sitemap page whose own fetch returned a status >= 400
BrokenPage(u) ==
    \E k \in 1..Len(scans) :
        /\ scans[k].page = u
        /\ scans[k].kind = "response"
        /\ scans[k].status >= 400
\* the URL is a cache key with the outcome BROKEN or ERROR
CachedFailure(u) ==
    /\ u \in DOMAIN link_cache
    /\ link_cache[u][2] \in {"BROKEN", "ERROR (Timeout)",
                             "ERROR (Connection)", "ERROR (Jina chyba)"}
FindingsConsistent ==
    \A u \in DOMAIN all_broken_links_map :
        /\ CachedFailure(u) \/ BrokenPage(u)
        /\ all_broken_links_map[u] # {}
        /\ \A p \in all_broken_links_map[u] :
              \E k \in 1..Len(scans) :
                  /\ k < i
                  /\ scans[k].page = p
                  /\ page_urls[k] = p
FindingsGrow ==
    \A u \in DOMAIN all_broken_links_map :
        /\ u \in DOMAIN all_broken_links_map'
        /\ all_broken_links_map[u] \subseteq all_broken_links_map'[u]

\* C20: every key of all_broken_links_map is a cache key whose outcome is
\* BROKEN or ERROR, or a sitemap page whose own fetch returned >= 400; every
\* page listed for it is a sitemap page whose scan has returned; and no step
\* removes a key or a page.
C20_FindingsConsistency ==
    /\ []FindingsConsistent
    /\ [][FindingsGrow]_vars

\* one key is a cached failure found on the first page, another is the
\* second sitemap page, which answered >= 400
C20_Witness ==
    /\ pc = "exit"
    /\ \E u \in DOMAIN all_broken_links_map :
          /\ CachedFailure(u)
          /\ ~BrokenPage(u)
          /\ all_broken_links_map[u] = {page_urls[1]}
    /\ \E u \in DOMAIN all_broken_links_map :
          /\ BrokenPage(u)
          /\ ~CachedFailure(u)

====
